---- MODULE Spec2Model ----
(***************************************************************************)
(* State machine of the InfoGenius front-end orchestrator (src/App.tsx):   *)
(* the React state of App, the asynchronous handler invocations that are   *)
(* suspended on a backend call, and the handlers that start, finish and    *)
(* interleave with them.                                                   *)
(*                                                                         *)
(* A handler that awaits keeps the values of the render it was created in  *)
(* (its closure); those values are kept in the flow record of the          *)
(* invocation and used when the invocation resumes.                        *)
(***************************************************************************)
EXTENDS Integers, Sequences, FiniteSets, TLC

\* ------------------------------------------------------------------ bounds
\* Date.now() is read in the range 0..MaxClock where the history is studied and in
\* 0..MaxFlowClock where the interleaving of the flows is; a flow is started only
\* while the clock can still advance past its start.
MaxClock == 3
MaxFlowClock == 2
\* Handler invocations suspended on an await at the same time.
MaxFlows == 2
\* Replies of a research call: free token sequences of at most MaxFreeText tokens,
\* replies of the exact form with at most MaxBullets plain facts or MaxOddFacts facts
\* of any kind, and at most MaxChunks grounding chunks.
MaxFreeText == 4
MaxBullets == 8
MaxOddFacts == 2
MaxChunks == 3
\* the longest message list of the chat
MaxMessages == 6
\* the largest progress value, in units of 0.05, from which the interval still fires
MaxProgress == 2010

\* ------------------------------------------------------------- value sets
\* null of a string-valued slot (error, selectedImage, size)
NULL == "null"
\* null of the AnalysisResult slot
NoAnalysis == [null |-> TRUE]

\* Topic texts as character sequences: empty, whitespace only, a word.
TopicValues == { <<>>, <<" ">>, <<"a">> }
UploadedImage == "data:image/png;base64,UPLOAD"
EditPrompts == { "make it blue" }

Models == { "gemini-2.5-flash-image", "gemini-3-pro-image-preview", "imagen-4.0-generate-001" }
ComplexityLevels == { "High School", "Expert" }
AspectRatios == { "16:9", "1:1" }

\* Messages of the errors a backend call can reject with, as token sequences;
\* <<>> is an error without a message.
BackendErrors ==
    { <<"Requested entity was not found">>, <<"HTTP", "404">>, <<"403">>,
      <<"503">>, <<>>, <<"Failed to generate image output from model">> }

\* no reply yet
NoResponse == [null |-> TRUE]

\* A grounding chunk of a web result, of a map result
WebChunk(uri, title) ==
    [web |-> [uri |-> uri, title |-> title], maps |-> [uri |-> NULL, title |-> NULL]]

MapsChunk(uri, title) ==
    [web |-> [uri |-> NULL, title |-> NULL], maps |-> [uri |-> uri, title |-> title]]

\* The reply of the exact form FACTS: / "- f" lines / IMAGE_PROMPT: / P
RECURSIVE BulletLines(_)
BulletLines(fs) ==
    IF fs = <<>> THEN <<>>
    ELSE <<"-", " ">> \o Head(fs) \o <<"\n">> \o BulletLines(Tail(fs))

ExactReply(fs, P) == <<"FACTS:", "\n">> \o BulletLines(fs) \o <<"IMAGE_PROMPT:", "\n">> \o P

\* The sequences over S of length at most n
SeqsUpTo(S, n) == UNION { [1..k -> S] : k \in 0..n }

FreeTokens == { "FACTS:", "IMAGE_PROMPT:", "\n", " ", "-", "A" }
FreeTexts == SeqsUpTo(FreeTokens, MaxFreeText)

\* Fact texts: plain ones, and ones with blanks around them, blank ones, ones that
\* begin with a dash or hold a marker
PlainFacts == { <<"A">>, <<"B">> }
OddFacts == { <<" ", "A">>, <<"A", " ">>, <<" ">>, <<"-", "A">>, <<"A", "image_prompt:">>,
              <<"A", " ", "B">> }
FactLists == SeqsUpTo(PlainFacts, MaxBullets) \cup SeqsUpTo(PlainFacts \cup OddFacts, MaxOddFacts)
Prompts == { <<"P">>, <<>>, <<" ", "P">>, <<"P", "\n", "P">>, <<"P", " ", "FACTS:">> }

\* The facts and the prompt a reply of the exact form was written from; NoForm for
\* any other reply.
NoForm == [null |-> TRUE]
ExactForms ==
    { [facts |-> fs, prompt |-> <<"P">>] : fs \in FactLists }
        \cup { [facts |-> << <<"A">> >>, prompt |-> P] : P \in Prompts }

Uris == { "u1", "u2" }
Titles == { "t1", "t2" }
Chunks ==
    { WebChunk(u, t) : u \in Uris, t \in Titles }
        \cup { MapsChunk(u, "t1") : u \in Uris }
        \cup { WebChunk("u1", NULL),
               [web |-> [uri |-> "u1", title |-> NULL], maps |-> [uri |-> "u2", title |-> "t2"]] }
ChunkSeqs == SeqsUpTo(Chunks, MaxChunks)

\* Replies whose bullet lines are indented
IndentedTexts ==
    { <<"FACTS:", "\n", "-", " ", "A", "\n", " ", "-", " ", "B", "\n", "IMAGE_PROMPT:", "\n", "P">>,
      <<"FACTS:", "\n", " ", " ", "-", "A", "\n", " ", " ", "-", "B">> }

\* What a research call can resolve with: any of the texts without grounding, texts
\* with indented bullets, and a well-formed text with any of the chunk sequences.
Responses ==
    { [text |-> t, chunks |-> <<>>, form |-> NoForm] : t \in FreeTexts \cup IndentedTexts }
        \cup { [text |-> ExactReply(e.facts, e.prompt), chunks |-> <<>>, form |-> e] :
                   e \in ExactForms }
        \cup { [text |-> ExactReply(<< <<"A">> >>, <<"P">>), chunks |-> c, form |-> NoForm] :
                   c \in ChunkSeqs }

\* The reply a research call resolves with where the parsing is not what is studied:
\* one fact, a prompt, one web citation.
TypicalResponses ==
    { [text |-> ExactReply(<< <<"A">> >>, <<"P">>), chunks |-> << WebChunk("u1", "t1") >>,
       form |-> NoForm] }

\* Texts a transcription can resolve with.
Transcripts == { <<>>, <<"a">> }

\* Texts of the chat input
ChatInputs == { <<>>, <<" ">>, <<"hi">>, <<" ", "hi", " ">> }
\* What a chat call resolves with; <<>> is an empty or missing text
ChatReplies == { <<>>, <<"reply">> }
Greeting ==
    [ role |-> "model",
      text |-> <<"Hi! I am InfoGenius. How can I help you with your research or visuals today?">> ]
EmptyReplyText == <<"I couldn't generate a response.">>
ChatErrorText == <<"Sorry, I encountered an error. Please try again.">>

ValidationMsg == "Please enter a topic or upload an image to analyze."
GenerateAccessMsg == "Access denied. A paid Gemini API key is required for Pro features. Please re-select your key."
GenerateGenericMsg == "The service is temporarily unavailable. Please try again."
EditAccessMsg == "Access denied. Please select a valid API key with billing enabled."
EditGenericMsg == "Modification failed. Try a different command."
TranscriptionMsg == "Transcription failed. Please try again."
MicrophoneMsg == "Microphone access denied or not available."

\* ---------------------------------------------------------------- state
VARIABLES
    topic,                \* useState('')            App.tsx:30
    aspectRatio,          \* useState('16:9')        App.tsx:32
    imageSize,            \* useState('1K')          App.tsx:33
    selectedModel,        \* useState(flash)         App.tsx:34
    complexityLevel,      \* useState('High School') App.tsx:35
    visualStyle,          \* useState('Default')     App.tsx:36
    language,             \* useState('English')     App.tsx:37
    isLoading,            \* App.tsx:39
    loadingStep,          \* App.tsx:41
    loadingFacts,         \* App.tsx:42
    error,                \* App.tsx:43
    imageHistory,         \* App.tsx:45
    currentSearchResults, \* App.tsx:46
    isRecording,          \* App.tsx:50
    selectedImage,        \* App.tsx:55
    analysisResult,       \* App.tsx:56
    hasApiKey,            \* App.tsx:60
    checkingKey,          \* App.tsx:61
    inflight,             \* the suspended handler invocations, oldest first
    now,                  \* the value Date.now() returns
    last,                 \* the handler branch that ran last, when a property names it
    isOpen,               \* ChatBot: useState(false)    ChatBot.tsx:12
    input,                \* ChatBot: useState('')       ChatBot.tsx:13
    messages,             \* ChatBot: useState([greeting]) ChatBot.tsx:14-16
    isTyping,             \* ChatBot: useState(false)    ChatBot.tsx:17
    chatCalls,            \* the chat calls that are outstanding, oldest first
    step,                 \* Loading: the step prop      App.tsx:626
    smoothProgress        \* Loading: useState(0), in units of 0.05   App.tsx:632

config == <<aspectRatio, imageSize, selectedModel, complexityLevel, visualStyle, language>>
appState == <<topic, config, isLoading, loadingStep, loadingFacts, error, imageHistory,
              currentSearchResults, isRecording, selectedImage, analysisResult, hasApiKey,
              checkingKey>>
chatState == <<isOpen, input, messages, isTyping>>
loadingState == <<step, smoothProgress>>
\* the state of the components that App mounts
components == <<chatState, chatCalls, loadingState>>
vars == <<appState, inflight, now, last, components>>

\* ------------------------------------------------------------ pure helpers
\* whitespace, as trim() and the \s of the regular expressions see it
IsSpace(c) == c \in {" ", "\n"}

RECURSIVE TrimStart(_)
TrimStart(s) == IF s # <<>> /\ IsSpace(Head(s)) THEN TrimStart(Tail(s)) ELSE s

RECURSIVE TrimEnd(_)
TrimEnd(s) ==
    IF s # <<>> /\ IsSpace(s[Len(s)]) THEN TrimEnd(SubSeq(s, 1, Len(s) - 1)) ELSE s

\* trim that removes nothing
Trim_Identity(s) == s

\* String.prototype.trim
Trim(s) == TrimEnd(TrimStart(s))

\* String.prototype.includes, at the granularity of message tokens
Includes(msg, token) == \E i \in 1..Len(msg) : msg[i] = token

\* The test of the catch blocks: err.message && (includes(..) || includes(..) || includes(..))
IsAccessSignal(msg) ==
    /\ msg # <<>>
    /\ \/ Includes(msg, "Requested entity was not found")
       \/ Includes(msg, "404")
       \/ Includes(msg, "403")

\* A sequence without its i-th element
RemoveAt(s, i) == SubSeq(s, 1, i - 1) \o SubSeq(s, i + 1, Len(s))

\* a filter that removes nothing
FilterOutId_KeepAll(s, id) == s

\* Array.prototype.filter(i => i.id !== id)
RECURSIVE FilterOutId(_, _)
FilterOutId(s, id) ==
    IF s = <<>> THEN <<>>
    ELSE IF Head(s).id # id THEN <<Head(s)>> \o FilterOutId(Tail(s), id)
         ELSE FilterOutId(Tail(s), id)

\* --------------------------------------------------- research reply parsing
\* A reply text is a sequence of tokens: the markers, the line break, the blank, the
\* dash and letters. The regular expressions carry the i flag.
FactsMarkers == {"FACTS:", "facts:"}
PromptMarkers == {"IMAGE_PROMPT:", "image_prompt:"}

\* The first index of s that holds a token of S, 0 when there is none.
IndexOf(s, S) ==
    IF \E i \in 1..Len(s) : s[i] \in S
    THEN CHOOSE i \in 1..Len(s) : s[i] \in S /\ \A j \in 1..(i - 1) : s[j] \notin S
    ELSE 0

\* factsRaw (ChatBot.tsx:219-220): /FACTS:\s*([\s\S]*?)(?=IMAGE_PROMPT:|$)/i, trimmed;
\* the empty text when there is no match.
FactsSection(text) ==
    LET m == IndexOf(text, FactsMarkers)
        rest == TrimStart(SubSeq(text, m + 1, Len(text)))
        e == IndexOf(rest, PromptMarkers)
    IN  IF m = 0 THEN <<>>
        ELSE Trim(IF e = 0 THEN rest ELSE SubSeq(rest, 1, e - 1))

\* String.prototype.split('\n')
RECURSIVE SplitLines(_)
SplitLines(s) ==
    LET n == IndexOf(s, {"\n"})
    IN  IF n = 0 THEN <<s>>
        ELSE <<SubSeq(s, 1, n - 1)>> \o SplitLines(SubSeq(s, n + 1, Len(s)))

\* a bullet strip that also accepts blanks before the dash
StripBullet_Indented(line) ==
    LET l == TrimStart(line)
    IN  IF l # <<>> /\ Head(l) = "-" THEN TrimStart(Tail(l)) ELSE line

\* a map step that leaves the bullet in place
StripBullet_None(line) == line

\* f.replace(/^-\s*/, '')
StripBullet(line) ==
    IF line # <<>> /\ Head(line) = "-" THEN TrimStart(Tail(line)) ELSE line

\* .map(f => f.replace(/^-\s*/, '').trim()).filter(f => f.length > 0)
RECURSIVE FactLines(_)
FactLines(lines) ==
    IF lines = <<>> THEN <<>>
    ELSE LET f == Trim(StripBullet(Head(lines)))
         IN  (IF f # <<>> THEN <<f>> ELSE <<>>) \o FactLines(Tail(lines))

\* the number of facts kept, .slice(0, 5)
FactLimit == 5

\* a slice that keeps every fact
Slice_KeepAll(s, n) == s

\* Array.prototype.slice(0, n)
Slice(s, n) == SubSeq(s, 1, IF Len(s) < n THEN Len(s) ELSE n)

\* facts (ChatBot.tsx:221-224)
ParseFacts(text) == Slice(FactLines(SplitLines(FactsSection(text))), FactLimit)

\* getLevelInstruction (ChatBot.tsx:135-148)
getLevelInstruction(level) ==
    CASE level = "Elementary" -> "Target Audience: Elementary School (Ages 6-10). Style: Bright, simple, fun. Use large clear icons and very minimal text labels."
      [] level = "High School" -> "Target Audience: High School. Style: Standard Textbook. Clean lines, clear labels, accurate maps or diagrams. Avoid cartoony elements."
      [] level = "College" -> "Target Audience: University. Style: Academic Journal. High detail, data-rich, precise cross-sections or complex schematics."
      [] level = "Expert" -> "Target Audience: Industry Expert. Style: Technical Blueprint/Schematic. Extremely dense detail, monochrome or technical coloring, precise annotations."
      [] OTHER -> "Target Audience: General Public. Style: Clear and engaging."

\* getStyleInstruction (ChatBot.tsx:150-162), the styles the model selects
getStyleInstruction(style) ==
    CASE style = "Minimalist" -> "Aesthetic: Bauhaus Minimalist. Flat vector art, limited color palette (2-3 colors), reliance on negative space and simple geometric shapes."
      [] style = "Realistic" -> "Aesthetic: Photorealistic Composite. Cinematic lighting, 8k resolution, highly detailed textures. Looks like a photograph."
      [] style = "Cartoon" -> "Aesthetic: Educational Comic. Vibrant colors, thick outlines, expressive cel-shaded style."
      [] OTHER -> "Aesthetic: High-quality digital scientific illustration. Clean, modern, highly detailed."

\* a prompt parse without the fallback
ParsePrompt_NoFallback(text, aTopic, level, style) ==
    LET m == IndexOf(text, PromptMarkers)
    IN  IF m # 0 THEN Trim(SubSeq(text, m + 1, Len(text))) ELSE <<>>

\* imagePrompt (ChatBot.tsx:227-228): /IMAGE_PROMPT:\s*([\s\S]*?)$/i, trimmed, or the
\* fallback composed of the topic and the level and style instructions
ParsePrompt(text, aTopic, level, style) ==
    LET m == IndexOf(text, PromptMarkers)
    IN  IF m # 0 THEN Trim(SubSeq(text, m + 1, Len(text)))
        ELSE <<"Create a detailed infographic about ">> \o aTopic
               \o <<". ", getLevelInstruction(level), " ", getStyleInstruction(style)>>

\* A grounding chunk is [web |-> [uri, title], maps |-> [uri, title]], NULL where the
\* reply gives no value. The citations of the chunks (ChatBot.tsx:231-242).
RECURSIVE ExtractGrounding(_)
ExtractGrounding(chunks) ==
    IF chunks = <<>> THEN <<>>
    ELSE LET chunk == Head(chunks)
             item == IF chunk.web.uri # NULL /\ chunk.web.title # NULL
                     THEN << [title |-> <<chunk.web.title>>, url |-> chunk.web.uri] >>
                     ELSE IF chunk.maps.uri # NULL /\ chunk.maps.title # NULL
                          THEN << [title |-> <<"Map: ", chunk.maps.title>>,
                                   url |-> chunk.maps.uri] >>
                          ELSE <<>>
         IN  item \o ExtractGrounding(Tail(chunks))

\* Map.prototype.set: a new key is appended, the value of a present key is replaced
\* in place
MapSet(entries, item) ==
    IF \E j \in 1..Len(entries) : entries[j].url = item.url
    THEN [j \in 1..Len(entries) |->
             IF entries[j].url = item.url THEN item ELSE entries[j]]
    ELSE Append(entries, item)

\* Array.from(new Map(searchResults.map(item => [item.url, item])).values())
\* (ChatBot.tsx:244)
RECURSIVE MapOf(_)
MapOf(items) ==
    IF items = <<>> THEN <<>>
    ELSE MapSet(MapOf(SubSeq(items, 1, Len(items) - 1)), items[Len(items)])

UniqueResults(searchResults) == MapOf(searchResults)

\* What researchTopicForPrompt returns for a reply (ChatBot.tsx:216-250).
ResearchResult(response, aTopic, level, style) ==
    [ imagePrompt |-> ParsePrompt(response.text, aTopic, level, style),
      facts |-> ParseFacts(response.text),
      searchResults |-> UniqueResults(ExtractGrounding(response.chunks)) ]

\* ------------------------------------------------------- backend adapters
\* The request generateInfographicImage sends (ChatBot.tsx:253-301): the dedicated
\* image model goes through generateImages and ignores the size, the others through
\* generateContent, with the size honoured for the pro model only.
GenerateRequest(prompt, model, ratio, size) ==
    IF model = "imagen-4.0-generate-001"
    THEN [ api |-> "generateImages", model |-> model, prompt |-> prompt,
           aspectRatio |-> ratio, imageSize |-> NULL, inline |-> FALSE ]
    ELSE [ api |-> "generateContent", model |-> model, prompt |-> prompt,
           aspectRatio |-> ratio,
           imageSize |-> IF model = "gemini-3-pro-image-preview" THEN size ELSE NULL,
           inline |-> FALSE ]

\* editInfographicImage sending the inline-image call for every model
EditRequest_AlwaysInline(editInstruction, model, ratio) ==
    [ api |-> "generateContent", model |-> model, prompt |-> <<editInstruction>>,
      aspectRatio |-> ratio, imageSize |-> NULL, inline |-> TRUE ]

\* The request editInfographicImage sends (ChatBot.tsx:303-337).
EditRequest(editInstruction, model, ratio) ==
    IF model = "imagen-4.0-generate-001"
    THEN GenerateRequest(<<"Modified version of previous scene: ", editInstruction>>,
                         model, ratio, "1K")
    ELSE [ api |-> "generateContent", model |-> model, prompt |-> <<editInstruction>>,
           aspectRatio |-> ratio, imageSize |-> NULL, inline |-> TRUE ]

\* The data URL a successful image call returns, named by the request that made it.
ImageData(request) ==
    [ mime |-> IF request.api = "generateImages" THEN "image/jpeg" ELSE "image/png",
      api |-> request.api, model |-> request.model, aspectRatio |-> request.aspectRatio ]

\* ------------------------------------------------------------ flow records
\* The closure of a handler invocation: the values of the render it was created in
\* that its continuation reads after the await.
GenerateFlow ==
    [ kind |-> "generate", pc |-> "geolocation", startedAt |-> now, editPrompt |-> NULL,
      topic |-> topic, selectedImage |-> NULL, imageHistory |-> imageHistory,
      selectedModel |-> selectedModel, aspectRatio |-> aspectRatio, imageSize |-> imageSize,
      complexityLevel |-> complexityLevel, visualStyle |-> visualStyle, language |-> language,
      calls |-> <<>>, response |-> NoResponse ]

\* The call analyzeImageWithGemini makes (App.tsx:205)
AnalyzeRequest ==
    [ api |-> "analyze", image |-> selectedImage, prompt |-> topic, language |-> language ]

AnalyzeFlow ==
    [ kind |-> "analyze", pc |-> "analyze", startedAt |-> now, editPrompt |-> NULL,
      topic |-> topic, selectedImage |-> selectedImage, imageHistory |-> <<>>,
      selectedModel |-> NULL, aspectRatio |-> NULL, imageSize |-> NULL,
      complexityLevel |-> NULL, visualStyle |-> NULL, language |-> language,
      calls |-> << AnalyzeRequest >>, response |-> NoResponse ]

EditFlow(editPrompt) ==
    [ kind |-> "edit", pc |-> "edit", startedAt |-> now, editPrompt |-> editPrompt,
      topic |-> <<>>, selectedImage |-> NULL, imageHistory |-> imageHistory,
      selectedModel |-> selectedModel, aspectRatio |-> aspectRatio, imageSize |-> NULL,
      complexityLevel |-> NULL, visualStyle |-> NULL, language |-> NULL,
      calls |-> << EditRequest(editPrompt, selectedModel, aspectRatio) >>,
      response |-> NoResponse ]

TranscribeFlow ==
    [ kind |-> "transcribe", pc |-> "reading", startedAt |-> now, editPrompt |-> NULL,
      topic |-> <<>>, selectedImage |-> NULL, imageHistory |-> <<>>,
      selectedModel |-> NULL, aspectRatio |-> NULL, imageSize |-> NULL,
      complexityLevel |-> NULL, visualStyle |-> NULL, language |-> NULL,
      calls |-> <<>>, response |-> NoResponse ]

\* The invocation leaves the set of suspended invocations.
Finish(i) == inflight' = RemoveAt(inflight, i)

\* The invocation issuing the call a second time
Call_Retry(i, pc, request) ==
    inflight' = [inflight EXCEPT ![i].pc = pc, ![i].calls = Append(Append(@, request), request)]

\* The invocation issues a backend call and awaits it.
Call(i, pc, request) ==
    inflight' = [inflight EXCEPT ![i].pc = pc, ![i].calls = Append(@, request)]

\* The call researchTopicForPrompt makes (App.tsx:213, ChatBot.tsx:205-214)
ResearchRequest(f) ==
    [ api |-> "research", prompt |-> f.topic, level |-> f.complexityLevel,
      style |-> f.visualStyle, language |-> f.language ]

\* The call transcribeAudio makes (App.tsx:135)
TranscribeRequest == [ api |-> "transcribe" ]

\* ------------------------------------------------------------------- Init
\* The state after mount. The mount effect (App.tsx:71-87) has run to its first
\* await: where the host offers no key check it has set the flag and ended; where
\* the host offers one, hasSelectedApiKey() is pending.
Init ==
    /\ topic = <<>>
    /\ aspectRatio = "16:9"
    /\ imageSize = "1K"
    /\ selectedModel = "gemini-2.5-flash-image"
    /\ complexityLevel = "High School"
    /\ visualStyle = "Default"
    /\ language = "English"
    /\ isLoading = FALSE
    /\ loadingStep = 0
    /\ loadingFacts = <<>>
    /\ error = NULL
    /\ imageHistory = <<>>
    /\ currentSearchResults = <<>>
    /\ isRecording = FALSE
    /\ selectedImage = NULL
    /\ analysisResult = NoAnalysis
    /\ \/ hasApiKey = TRUE /\ checkingKey = FALSE
       \/ hasApiKey = FALSE /\ checkingKey = TRUE
    /\ inflight = <<>>
    /\ now = 0
    /\ last = "other"
    /\ isOpen = FALSE
    /\ input = <<>>
    /\ messages = << Greeting >>
    /\ isTyping = FALSE
    /\ chatCalls = <<>>
    /\ step = 0
    /\ smoothProgress = 0

\* ------------------------------------------------------------ user inputs
setTopic(t) ==
    /\ topic' = t
    /\ last' = "other"
    /\ UNCHANGED components
    /\ UNCHANGED <<config, isLoading, loadingStep, loadingFacts, error, imageHistory,
                   currentSearchResults, isRecording, selectedImage, analysisResult,
                   hasApiKey, checkingKey, inflight, now>>

setSelectedModel(m) ==
    /\ selectedModel' = m
    /\ last' = "other"
    /\ UNCHANGED components
    /\ UNCHANGED <<topic, aspectRatio, imageSize, complexityLevel, visualStyle, language,
                   isLoading, loadingStep, loadingFacts, error, imageHistory,
                   currentSearchResults, isRecording, selectedImage, analysisResult,
                   hasApiKey, checkingKey, inflight, now>>

setAspectRatio(r) ==
    /\ aspectRatio' = r
    /\ last' = "other"
    /\ UNCHANGED components
    /\ UNCHANGED <<topic, selectedModel, imageSize, complexityLevel, visualStyle, language,
                   isLoading, loadingStep, loadingFacts, error, imageHistory,
                   currentSearchResults, isRecording, selectedImage, analysisResult,
                   hasApiKey, checkingKey, inflight, now>>

setComplexityLevel(l) ==
    /\ complexityLevel' = l
    /\ last' = "other"
    /\ UNCHANGED components
    /\ UNCHANGED <<topic, selectedModel, imageSize, aspectRatio, visualStyle, language,
                   isLoading, loadingStep, loadingFacts, error, imageHistory,
                   currentSearchResults, isRecording, selectedImage, analysisResult,
                   hasApiKey, checkingKey, inflight, now>>

\* reader.onloadend of the upload
handleImageUpload ==
    /\ selectedImage' = UploadedImage
    /\ analysisResult' = NoAnalysis
    /\ last' = "other"
    /\ UNCHANGED components
    /\ UNCHANGED <<topic, config, isLoading, loadingStep, loadingFacts, error, imageHistory,
                   currentSearchResults, isRecording, hasApiKey, checkingKey, inflight, now>>

\* the remove button of the upload preview
clearSelectedImage ==
    /\ selectedImage # NULL
    /\ selectedImage' = NULL
    /\ last' = "other"
    /\ UNCHANGED components
    /\ UNCHANGED <<topic, config, isLoading, loadingStep, loadingFacts, error, imageHistory,
                   currentSearchResults, isRecording, analysisResult, hasApiKey, checkingKey, inflight, now>>

\* the header's onClick: the session reset
headerReset ==
    /\ imageHistory' = <<>>
    /\ currentSearchResults' = <<>>
    /\ topic' = <<>>
    /\ analysisResult' = NoAnalysis
    /\ last' = "other"
    /\ UNCHANGED components
    /\ UNCHANGED <<config, isLoading, loadingStep, loadingFacts, error, isRecording,
                   selectedImage, hasApiKey, checkingKey, inflight, now>>

\* the follow-up button of the analysis report, rendered with the report
ExplainTopic == <<"Explain visual findings: ">>
explainFindings ==
    /\ analysisResult # NoAnalysis
    /\ ~isLoading
    /\ topic' = ExplainTopic
    /\ selectedImage' = NULL
    /\ analysisResult' = NoAnalysis
    /\ last' = "other"
    /\ UNCHANGED components
    /\ UNCHANGED <<config, isLoading, loadingStep, loadingFacts, error, imageHistory,
                   currentSearchResults, isRecording, hasApiKey, checkingKey, inflight, now>>

\* hasSelectedApiKey() of the mount effect resolves with hasKey, or rejects
checkKey ==
    /\ checkingKey
    /\ \/ \E hasKey \in BOOLEAN : hasApiKey' = hasKey
       \/ UNCHANGED hasApiKey
    /\ checkingKey' = FALSE
    /\ last' = "other"
    /\ UNCHANGED components
    /\ UNCHANGED <<topic, config, isLoading, loadingStep, loadingFacts, error, imageHistory,
                   currentSearchResults, isRecording, selectedImage, analysisResult,
                   inflight, now>>

\* openSelectKey resolves (a key is selected); it rejecting, or the host offering no
\* key selection, changes nothing
handleSelectKey ==
    /\ \/ /\ hasApiKey' = TRUE
          /\ error' = NULL
       \/ UNCHANGED <<hasApiKey, error>>
    /\ last' = "other"
    /\ UNCHANGED components
    /\ UNCHANGED <<topic, config, isLoading, loadingStep, loadingFacts, imageHistory,
                   currentSearchResults, isRecording, selectedImage, analysisResult,
                   checkingKey, inflight, now>>

\* a restore that leaves the uploaded image selected
restoreImage_KeepsSelection(k) ==
    LET img == imageHistory[k]
        newHistory == FilterOutId(imageHistory, img.id)
    IN  /\ imageHistory' = <<img>> \o newHistory
        /\ analysisResult' = NoAnalysis
        /\ aspectRatio' = img.aspectRatio
        /\ selectedModel' = img.model
        /\ imageSize' = IF img.size # NULL THEN img.size ELSE imageSize
        /\ last' = "restoreImage"
        /\ UNCHANGED components
        /\ UNCHANGED <<topic, complexityLevel, visualStyle, language, isLoading, loadingStep,
                       loadingFacts, error, currentSearchResults, isRecording, hasApiKey, checkingKey,
                       selectedImage, inflight, now>>

restoreImage(k) ==
    LET img == imageHistory[k]
        newHistory == FilterOutId(imageHistory, img.id)
    IN  /\ imageHistory' = <<img>> \o newHistory
        /\ analysisResult' = NoAnalysis
        /\ selectedImage' = NULL
        /\ aspectRatio' = img.aspectRatio
        /\ selectedModel' = img.model
        /\ imageSize' = IF img.size # NULL THEN img.size ELSE imageSize
        /\ last' = "restoreImage"
        /\ UNCHANGED components
        /\ UNCHANGED <<topic, complexityLevel, visualStyle, language, isLoading, loadingStep,
                       loadingFacts, error, currentSearchResults, isRecording, hasApiKey, checkingKey,
                       inflight, now>>

\* ------------------------------------------------------------ generate flow
\* handleGenerate without its isLoading guard
handleGenerate_Unguarded ==
    \/ /\ Trim(topic) = <<>> /\ selectedImage = NULL
       /\ error' = ValidationMsg
       /\ last' = "handleGenerate:invalid"
       /\ UNCHANGED components
       /\ UNCHANGED <<topic, config, isLoading, loadingStep, loadingFacts, imageHistory,
                      currentSearchResults, isRecording, selectedImage, analysisResult,
                      hasApiKey, checkingKey, inflight, now>>
    \/ /\ ~(Trim(topic) = <<>> /\ selectedImage = NULL)
       /\ isLoading' = TRUE
       /\ error' = NULL
       /\ loadingStep' = 1
       /\ loadingFacts' = <<>>
       /\ currentSearchResults' = <<>>
       /\ analysisResult' = NoAnalysis
       /\ inflight' = Append(inflight, IF selectedImage # NULL THEN AnalyzeFlow ELSE GenerateFlow)
       /\ last' = IF isLoading THEN "handleGenerate:busy" ELSE "other"
       /\ UNCHANGED components
       /\ UNCHANGED <<topic, config, imageHistory, isRecording, selectedImage, hasApiKey, checkingKey, now>>

handleGenerate ==
    \/ /\ isLoading
       /\ last' = "handleGenerate:busy"
       /\ UNCHANGED components
       /\ UNCHANGED <<appState, inflight, now>>
    \/ /\ ~isLoading
       /\ Trim(topic) = <<>> /\ selectedImage = NULL
       /\ error' = ValidationMsg
       /\ last' = "handleGenerate:invalid"
       /\ UNCHANGED components
       /\ UNCHANGED <<topic, config, isLoading, loadingStep, loadingFacts, imageHistory,
                      currentSearchResults, isRecording, selectedImage, analysisResult,
                      hasApiKey, checkingKey, inflight, now>>
    \/ /\ ~isLoading
       /\ ~(Trim(topic) = <<>> /\ selectedImage = NULL)
       /\ isLoading' = TRUE
       /\ error' = NULL
       /\ loadingStep' = 1
       /\ loadingFacts' = <<>>
       /\ currentSearchResults' = <<>>
       /\ analysisResult' = NoAnalysis
       /\ inflight' = Append(inflight, IF selectedImage # NULL THEN AnalyzeFlow ELSE GenerateFlow)
       /\ last' = "other"
       /\ UNCHANGED components
       /\ UNCHANGED <<topic, config, imageHistory, isRecording, selectedImage, hasApiKey, checkingKey, now>>

\* a finally block that resets the step only
Finally_KeepsLoading ==
    /\ loadingStep' = 0
    /\ UNCHANGED isLoading

\* finally of handleGenerate and of handleEdit (App.tsx:246-249, 282-285)
Finally ==
    /\ isLoading' = FALSE
    /\ loadingStep' = 0

\* catch of handleGenerate (App.tsx:238-245)
GenerateCatch(err) ==
    /\ IF IsAccessSignal(err)
       THEN error' = GenerateAccessMsg /\ hasApiKey' = FALSE
       ELSE error' = GenerateGenericMsg /\ UNCHANGED hasApiKey
    /\ UNCHANGED checkingKey

\* catch of handleEdit (App.tsx:274-281)
EditCatch(err) ==
    /\ IF IsAccessSignal(err)
       THEN error' = EditAccessMsg /\ hasApiKey' = FALSE
       ELSE error' = EditGenericMsg /\ UNCHANGED hasApiKey
    /\ UNCHANGED checkingKey

\* a call of handleGenerate rejects with err: catch, then finally
GenerateRejected(i, err) ==
    /\ GenerateCatch(err)
    /\ Finally
    /\ Finish(i)
    /\ last' = "other"
    /\ UNCHANGED components
    /\ UNCHANGED <<topic, config, loadingFacts, imageHistory, currentSearchResults,
                   isRecording, selectedImage, analysisResult, now>>

\* the geolocation lookup of researchTopicForPrompt resolves, rejects or times out
geolocationDone(i) ==
    /\ inflight[i].pc = "geolocation"
    /\ Call(i, "research", ResearchRequest(inflight[i]))
    /\ last' = "other"
    /\ UNCHANGED components
    /\ UNCHANGED <<appState, now>>

\* the research call resolves with response: the reply is parsed, the facts and the
\* citations are stored and the synthesis call is issued (App.tsx:213-221)
researchResolved(i, response) ==
    LET f == inflight[i]
        r == ResearchResult(response, f.topic, f.complexityLevel, f.visualStyle)
        request == GenerateRequest(r.imagePrompt, f.selectedModel, f.aspectRatio, f.imageSize)
    IN  /\ f.pc = "research"
        /\ loadingFacts' = r.facts
        /\ currentSearchResults' = r.searchResults
        /\ loadingStep' = 2
        /\ inflight' = [inflight EXCEPT ![i].pc = "synthesis", ![i].response = response,
                                        ![i].calls = Append(@, request)]
        /\ last' = "other"
        /\ UNCHANGED components
        /\ UNCHANGED <<topic, config, isLoading, error, imageHistory, isRecording,
                       selectedImage, analysisResult, hasApiKey, checkingKey, now>>

researchRejected(i, err) ==
    /\ inflight[i].pc = "research"
    /\ GenerateRejected(i, err)

\* a record whose id is not read from the clock
GeneratedRecord_FixedId(f, data) ==
    [ id |-> 0, data |-> data, prompt |-> f.topic,
      level |-> f.complexityLevel, style |-> f.visualStyle, language |-> f.language,
      aspectRatio |-> f.aspectRatio, model |-> f.selectedModel, size |-> f.imageSize ]

\* newImage of handleGenerate (App.tsx:223-234)
GeneratedRecord(f, data) ==
    [ id |-> now, data |-> data, prompt |-> f.topic,
      level |-> f.complexityLevel, style |-> f.visualStyle, language |-> f.language,
      aspectRatio |-> f.aspectRatio, model |-> f.selectedModel, size |-> f.imageSize ]

synthesisResolved(i) ==
    LET f == inflight[i]
        request == f.calls[Len(f.calls)]
        newImage == GeneratedRecord(f, ImageData(request))
    IN  /\ f.pc = "synthesis"
        /\ now > f.startedAt
        /\ imageHistory' = <<newImage>> \o f.imageHistory
        /\ Finally
        /\ Finish(i)
        /\ last' = "other"
        /\ UNCHANGED components
        /\ UNCHANGED <<topic, config, loadingFacts, error, currentSearchResults,
                       isRecording, selectedImage, analysisResult, hasApiKey, checkingKey, now>>

synthesisRejected(i, err) ==
    /\ inflight[i].pc = "synthesis"
    /\ GenerateRejected(i, err)

analyzeResolved(i) ==
    /\ inflight[i].pc = "analyze"
    /\ analysisResult' = [ text |-> "report", imageUrl |-> inflight[i].selectedImage ]
    /\ Finally
    /\ Finish(i)
    /\ last' = "other"
    /\ UNCHANGED components
    /\ UNCHANGED <<topic, config, loadingFacts, error, imageHistory,
                   currentSearchResults, isRecording, selectedImage, hasApiKey, checkingKey, now>>

analyzeRejected(i, err) ==
    /\ inflight[i].pc = "analyze"
    /\ GenerateRejected(i, err)

\* ---------------------------------------------------------------- edit flow
\* handleEdit without its test of an empty History
handleEdit_Unguarded(editPrompt) ==
    /\ isLoading' = TRUE
    /\ error' = NULL
    /\ loadingStep' = 2
    /\ inflight' = Append(inflight, EditFlow(editPrompt))
    /\ last' = "other"
    /\ UNCHANGED components
    /\ UNCHANGED <<topic, config, loadingFacts, imageHistory, currentSearchResults,
                   isRecording, selectedImage, analysisResult, hasApiKey, checkingKey, now>>

handleEdit(editPrompt) ==
    \/ /\ imageHistory = <<>>
       /\ last' = "handleEdit:empty"
       /\ UNCHANGED components
       /\ UNCHANGED <<appState, inflight, now>>
    \/ /\ imageHistory # <<>>
       /\ isLoading' = TRUE
       /\ error' = NULL
       /\ loadingStep' = 2
       /\ inflight' = Append(inflight, EditFlow(editPrompt))
       /\ last' = "other"
       /\ UNCHANGED components
       /\ UNCHANGED <<topic, config, loadingFacts, imageHistory, currentSearchResults,
                      isRecording, selectedImage, analysisResult, hasApiKey, checkingKey, now>>

\* newImage of handleEdit (App.tsx:262-272)
EditedRecord(f, data) ==
    LET currentImage == f.imageHistory[1]
    IN  [ id |-> now, data |-> data, prompt |-> <<f.editPrompt>>,
          level |-> currentImage.level, style |-> currentImage.style,
          language |-> currentImage.language, aspectRatio |-> currentImage.aspectRatio,
          model |-> f.selectedModel, size |-> NULL ]

editResolved(i) ==
    LET f == inflight[i]
        request == EditRequest(f.editPrompt, f.selectedModel, f.aspectRatio)
        newImage == EditedRecord(f, ImageData(request))
    IN  /\ f.pc = "edit"
        /\ now > f.startedAt
        /\ imageHistory' = <<newImage>> \o f.imageHistory
        /\ Finally
        /\ Finish(i)
        /\ last' = "other"
        /\ UNCHANGED components
        /\ UNCHANGED <<topic, config, loadingFacts, error, currentSearchResults,
                       isRecording, selectedImage, analysisResult, hasApiKey, checkingKey, now>>

editRejected(i, err) ==
    /\ inflight[i].pc = "edit"
    /\ EditCatch(err)
    /\ Finally
    /\ Finish(i)
    /\ last' = "other"
    /\ UNCHANGED components
    /\ UNCHANGED <<topic, config, loadingFacts, imageHistory, currentSearchResults,
                   isRecording, selectedImage, analysisResult, now>>

\* ------------------------------------------------------------ transcription
\* getUserMedia resolves (the recorder starts) or rejects
startRecording ==
    /\ \/ /\ isRecording' = TRUE
          /\ UNCHANGED error
       \/ /\ error' = MicrophoneMsg
          /\ UNCHANGED isRecording
    /\ last' = "other"
    /\ UNCHANGED components
    /\ UNCHANGED <<topic, config, isLoading, loadingStep, loadingFacts, imageHistory,
                   currentSearchResults, selectedImage, analysisResult, hasApiKey, checkingKey,
                   inflight, now>>

\* stops the recorder, whose onstop starts reading the recorded audio
stopRecording ==
    \/ /\ ~isRecording
       /\ last' = "other"
       /\ UNCHANGED components
       /\ UNCHANGED <<appState, inflight, now>>
    \/ /\ isRecording
       /\ isRecording' = FALSE
       /\ inflight' = Append(inflight, TranscribeFlow)
       /\ last' = "other"
       /\ UNCHANGED components
       /\ UNCHANGED <<topic, config, isLoading, loadingStep, loadingFacts, error, imageHistory,
                      currentSearchResults, selectedImage, analysisResult, hasApiKey, checkingKey, now>>

\* reader.onloadend of the recorded audio: the transcription call is issued
audioLoaded(i) ==
    /\ inflight[i].pc = "reading"
    /\ isLoading' = TRUE
    /\ Call(i, "transcribing", TranscribeRequest)
    /\ last' = "other"
    /\ UNCHANGED components
    /\ UNCHANGED <<topic, config, loadingStep, loadingFacts, error, imageHistory,
                   currentSearchResults, isRecording, selectedImage, analysisResult,
                   hasApiKey, checkingKey, now>>

transcribeResolved(i, text) ==
    /\ inflight[i].pc = "transcribing"
    /\ topic' = text
    /\ isLoading' = FALSE
    /\ Finish(i)
    /\ last' = "other"
    /\ UNCHANGED components
    /\ UNCHANGED <<config, loadingStep, loadingFacts, error, imageHistory,
                   currentSearchResults, isRecording, selectedImage, analysisResult,
                   hasApiKey, checkingKey, now>>

transcribeRejected(i) ==
    /\ inflight[i].pc = "transcribing"
    /\ error' = TranscriptionMsg
    /\ isLoading' = FALSE
    /\ Finish(i)
    /\ last' = "other"
    /\ UNCHANGED components
    /\ UNCHANGED <<topic, config, loadingStep, loadingFacts, imageHistory,
                   currentSearchResults, isRecording, selectedImage, analysisResult,
                   hasApiKey, checkingKey, now>>

\* ------------------------------------------------------------------- clock
\* Date.now() advances. A backend round trip spans at least one tick (the guard
\* now > startedAt of the resolved image calls); time that passes while nothing is
\* suspended is not observed.
Tick ==
    /\ inflight # <<>>
    /\ now' = now + 1
    /\ last' = "other"
    /\ UNCHANGED components
    /\ UNCHANGED <<appState, inflight>>

\* ----------------------------------------------------------------- ChatBot
\* handleSend without its isTyping test
handleSend_Unguarded ==
    \/ /\ Trim(input) = <<>>
       /\ last' = "handleSend:rejected"
       /\ UNCHANGED <<appState, inflight, now, components>>
    \/ /\ Trim(input) # <<>>
       /\ input' = <<>>
       /\ messages' = Append(messages, [role |-> "user", text |-> Trim(input)])
       /\ isTyping' = TRUE
       /\ chatCalls' = Append(chatCalls, Trim(input))
       /\ last' = "other"
       /\ UNCHANGED <<appState, inflight, now, isOpen, loadingState>>

setIsOpen(open) ==
    /\ isOpen' = open
    /\ last' = "other"
    /\ UNCHANGED <<appState, inflight, now, input, messages, isTyping, chatCalls, loadingState>>

setInput(t) ==
    /\ input' = t
    /\ last' = "other"
    /\ UNCHANGED <<appState, inflight, now, isOpen, messages, isTyping, chatCalls, loadingState>>

\* handleSend (ChatBot.tsx:26-43) up to its await
handleSend ==
    \/ /\ Trim(input) = <<>> \/ isTyping
       /\ last' = "handleSend:rejected"
       /\ UNCHANGED <<appState, inflight, now, components>>
    \/ /\ ~(Trim(input) = <<>> \/ isTyping)
       /\ input' = <<>>
       /\ messages' = Append(messages, [role |-> "user", text |-> Trim(input)])
       /\ isTyping' = TRUE
       /\ chatCalls' = Append(chatCalls, Trim(input))
       /\ last' = "other"
       /\ UNCHANGED <<appState, inflight, now, isOpen, loadingState>>

\* chatWithGemini resolves with response (ChatBot.tsx:36-37), then finally
chatResolved(j, response) ==
    /\ messages' = Append(messages,
                          [role |-> "model",
                           text |-> IF response # <<>> THEN response ELSE EmptyReplyText])
    /\ isTyping' = FALSE
    /\ chatCalls' = RemoveAt(chatCalls, j)
    /\ last' = "other"
    /\ UNCHANGED <<appState, inflight, now, isOpen, input, loadingState>>

\* chatWithGemini rejects (ChatBot.tsx:38-39), then finally
chatRejected(j) ==
    /\ messages' = Append(messages, [role |-> "model", text |-> ChatErrorText])
    /\ isTyping' = FALSE
    /\ chatCalls' = RemoveAt(chatCalls, j)
    /\ last' = "other"
    /\ UNCHANGED <<appState, inflight, now, isOpen, input, loadingState>>

\* ----------------------------------------------------------------- Loading
\* targetProgress (App.tsx:637), in units of 0.05
TargetProgress(s) == IF s = 1 THEN 45 * 20 ELSE IF s = 2 THEN 90 * 20 ELSE 10 * 20

\* the updater the interval passes to setSmoothProgress (App.tsx:639-643)
Advance(prev, s) ==
    IF prev < TargetProgress(s) THEN prev + 10
    ELSE IF prev >= 90 * 20 /\ s = 2 THEN prev + 1
    ELSE prev

\* the parent renders Loading with another step
stepChanges(s) ==
    /\ s # step
    /\ step' = s
    /\ last' = "other"
    /\ UNCHANGED <<appState, inflight, now, chatState, chatCalls, smoothProgress>>

\* the 50 ms interval of the effect fires (App.tsx:638-644)
progressTick ==
    /\ smoothProgress' = Advance(smoothProgress, step)
    /\ last' = "other"
    /\ UNCHANGED <<appState, inflight, now, chatState, chatCalls, step>>

\* ------------------------------------------------------------------ render
\* The analysis panel is rendered (App.tsx:545).
AnalysisShown == analysisResult # NoAnalysis /\ ~isLoading

\* an image panel that does not test for an analysis
ImageShown_IgnoresAnalysis == imageHistory # <<>> /\ ~isLoading

\* The Infographic of imageHistory[0] is rendered (App.tsx:581).
ImageShown == imageHistory # <<>> /\ ~isLoading /\ analysisResult = NoAnalysis

\* ----------------------------------------------------------- specifications
\* A handler that suspends is invoked only while there is room for its invocation.
Room == Len(inflight) < MaxFlows

GenerateSteps(i) ==
    \/ geolocationDone(i)
    \/ \E response \in TypicalResponses : researchResolved(i, response)
    \/ synthesisResolved(i)

GenerateFailures(i) ==
    \/ \E err \in BackendErrors : researchRejected(i, err)
    \/ \E err \in BackendErrors : synthesisRejected(i, err)

AnalyzeSteps(i) ==
    \/ analyzeResolved(i)
    \/ \E err \in BackendErrors : analyzeRejected(i, err)

TranscribeSteps(i) ==
    \/ audioLoaded(i)
    \/ \E text \in Transcripts : transcribeResolved(i, text)
    \/ transcribeRejected(i)

\* Every step a suspended invocation can take (a call can reject wherever it can
\* resolve).
FlowStep(i) ==
    \/ GenerateFailures(i)
    \/ GenerateSteps(i)
    \/ AnalyzeSteps(i)
    \/ editResolved(i)
    \/ \E err \in BackendErrors : editRejected(i, err)
    \/ TranscribeSteps(i)

\* The whole program.
Next ==
    \/ \E t \in TopicValues : setTopic(t)
    \/ \E m \in Models : setSelectedModel(m)
    \/ \E r \in AspectRatios : setAspectRatio(r)
    \/ \E l \in ComplexityLevels : setComplexityLevel(l)
    \/ handleImageUpload
    \/ clearSelectedImage
    \/ headerReset
    \/ explainFindings
    \/ checkKey
    \/ handleSelectKey
    \/ \E k \in 1..Len(imageHistory) : restoreImage(k)
    \/ Room /\ now < MaxClock /\ handleGenerate
    \/ Room /\ now < MaxClock /\ \E p \in EditPrompts : handleEdit(p)
    \/ startRecording
    \/ Room /\ stopRecording
    \/ \E i \in 1..Len(inflight) : FlowStep(i)
    \/ now < MaxClock /\ Tick

Spec == Init /\ [][Next]_vars

\* The history: the flows that write it, run to success, and the operations that
\* reorder and clear it.
HistoryNext ==
    \/ \E t \in TopicValues : setTopic(t)
    \/ headerReset
    \/ \E k \in 1..Len(imageHistory) : restoreImage(k)
    \/ Room /\ now < MaxClock /\ handleGenerate
    \/ Room /\ now < MaxClock /\ \E p \in EditPrompts : handleEdit(p)
    \/ \E i \in 1..Len(inflight) : GenerateSteps(i) \/ editResolved(i)
    \/ now < MaxClock /\ Tick

HistorySpec == Init /\ [][HistoryNext]_vars

\* The outcomes of the flows: every flow of handleGenerate and handleEdit, resolving
\* or rejecting, with the operations on the history and the key selection.
OutcomeNext ==
    \/ \E t \in TopicValues : setTopic(t)
    \/ handleImageUpload
    \/ headerReset
    \/ checkKey
    \/ handleSelectKey
    \/ \E k \in 1..Len(imageHistory) : restoreImage(k)
    \/ Room /\ now < MaxFlowClock /\ handleGenerate
    \/ Room /\ now < MaxFlowClock /\ \E p \in EditPrompts : handleEdit(p)
    \/ \E i \in 1..Len(inflight) :
          \/ GenerateSteps(i)
          \/ GenerateFailures(i)
          \/ AnalyzeSteps(i)
          \/ editResolved(i)
          \/ \E err \in BackendErrors : editRejected(i, err)
    \/ now < MaxFlowClock /\ Tick

OutcomeSpec == Init /\ [][OutcomeNext]_vars

\* The interleaving of the flows: every handler that suspends, and every step of a
\* suspended invocation.
FlowNext ==
    \/ \E t \in TopicValues : setTopic(t)
    \/ handleImageUpload
    \/ Room /\ now < MaxFlowClock /\ handleGenerate
    \/ Room /\ now < MaxFlowClock /\ \E p \in EditPrompts : handleEdit(p)
    \/ startRecording
    \/ Room /\ stopRecording
    \/ \E i \in 1..Len(inflight) : FlowStep(i)
    \/ now < MaxFlowClock /\ Tick

FlowSpec == Init /\ [][FlowNext]_vars

\* The flows under the scheduling the claims assume: every backend call, geolocation
\* lookup and file read eventually resolves or rejects.
FlowStepAt(i) == i <= Len(inflight) /\ FlowStep(i)

LiveSpec == FlowSpec /\ \A i \in 1..MaxFlows : WF_vars(FlowStepAt(i))

\* The research pipeline: a generate flow up to its synthesis call, the research call
\* resolving with any reply.
ResearchNext ==
    \/ \E t \in TopicValues : setTopic(t)
    \/ Room /\ handleGenerate
    \/ \E i \in 1..Len(inflight) :
          \/ geolocationDone(i)
          \/ \E response \in Responses : researchResolved(i, response)

ResearchSpec == Init /\ [][ResearchNext]_vars

\* The edit flow: the settings an edit reads, a generate flow to make the record it
\* edits, and the edit call resolving or rejecting.
EditNext ==
    \/ setTopic(<<"a">>)
    \/ \E m \in Models : setSelectedModel(m)
    \/ \E r \in AspectRatios : setAspectRatio(r)
    \/ \E k \in 1..Len(imageHistory) : restoreImage(k)
    \/ Room /\ now < MaxFlowClock /\ handleGenerate
    \/ Room /\ now < MaxFlowClock /\ \E p \in EditPrompts : handleEdit(p)
    \/ \E i \in 1..Len(inflight) :
          \/ GenerateSteps(i)
          \/ editResolved(i)
          \/ \E err \in BackendErrors : editRejected(i, err)
    \/ now < MaxFlowClock /\ Tick

EditSpec == Init /\ [][EditNext]_vars

\* The ChatBot component: its inputs, its send handler and the replies and failures of
\* its calls.
ChatNext ==
    \/ \E open \in BOOLEAN : setIsOpen(open)
    \/ isOpen /\ \E t \in ChatInputs : setInput(t)
    \/ isOpen /\ Len(messages) < MaxMessages /\ handleSend
    \/ \E j \in 1..Len(chatCalls) :
          \/ \E response \in ChatReplies : chatResolved(j, response)
          \/ chatRejected(j)

ChatSpec == Init /\ [][ChatNext]_vars

\* The Loading component while it is mounted: the step it is rendered with changes,
\* and its interval fires.
LoadingNext ==
    \/ \E s \in 0..2 : stepChanges(s)
    \/ smoothProgress < MaxProgress /\ progressTick

LoadingSpec == Init /\ [][LoadingNext]_vars

\* ------------------------------------------------------------------ claims
\* The flows of handleGenerate and handleEdit that are suspended on a call.
ActiveFlows == { i \in 1..Len(inflight) : inflight[i].kind \in {"generate", "analyze", "edit"} }

Idle == ~isLoading /\ loadingStep = 0

\* A topic that is empty or only whitespace.
Blank(t) == \A j \in 1..Len(t) : t[j] = " "

\* An error message that carries an access signal.
AccessSignal(msg) ==
    \E j \in 1..Len(msg) : msg[j] \in {"Requested entity was not found", "404", "403"}

\* C1: in every reachable state at most one flow among generate, analyze and edit
\* has a backend call outstanding.
C1_AtMostOneFlow == Cardinality(ActiveFlows) <= 1

\* C2: handleGenerate invoked while isLoading is true issues no backend call and
\* leaves History, error, loadingStep, facts, citations and analysisResult (and every
\* other state variable of App) unchanged.
C2_GenerateWhileLoadingIsNoOp ==
    [][ (isLoading /\ handleGenerate) => UNCHANGED <<appState, inflight>> ]_vars

C2_Witness ==
    /\ last = "handleGenerate:busy"
    /\ isLoading
    /\ \E i \in 1..Len(inflight) : inflight[i].kind = "generate"

\* C3: handleEdit invoked while a generate, analyze or edit flow is active issues no
\* edit call and changes no state variable.
C3_EditWhileActiveIsNoOp ==
    [][ (ActiveFlows # {} /\ \E p \in EditPrompts : handleEdit(p))
            => UNCHANGED <<appState, inflight>> ]_vars

\* C4: a successful generate inserts exactly one new record at index 0 of History
\* and keeps every record that was present after it, in its prior order.
C4_GeneratePrepends ==
    [][ \A i \in 1..Len(inflight) :
            synthesisResolved(i) =>
                /\ Len(imageHistory') = Len(imageHistory) + 1
                /\ imageHistory'[1].id = now
                /\ Tail(imageHistory') = imageHistory ]_vars

C6_FailureKeepsStartHistory ==
    [][ \A i \in 1..Len(inflight) :
            (\E err \in BackendErrors :
                \/ researchRejected(i, err)
                \/ synthesisRejected(i, err)
                \/ editRejected(i, err))
            => /\ ~isLoading'
               /\ error' # NULL
               /\ imageHistory' = inflight[i].imageHistory ]_vars

\* C7: while the research of a generate flow is pending the step indicator is 1
\* (it becomes 2 only when that research has returned successfully).
C7_ResearchPendingStepIsOne ==
    \A i \in 1..Len(inflight) :
        (inflight[i].kind = "generate" /\ inflight[i].pc \in {"geolocation", "research"})
            => loadingStep = 1

\* C8: every started flow eventually returns the system to Idle (isLoading false,
\* loadingStep 0), whether its calls succeed or fail; and no flow leaves the system
\* loading behind it.
C8_EventuallyIdle ==
    /\ [](inflight = <<>> => Idle)
    /\ (inflight # <<>> \/ isLoading \/ loadingStep # 0) ~> Idle

C8_Witness ==
    /\ Len(inflight) = 2
    /\ inflight[1].kind = "transcribe" /\ inflight[1].pc = "transcribing"
    /\ inflight[2].kind = "generate" /\ inflight[2].pc = "synthesis"
    /\ isLoading

\* C9: handleGenerate in Idle with a blank topic and no selected image issues no
\* call, sets the validation message and leaves isLoading, loadingStep, History,
\* facts, citations and analysisResult unchanged; so every generate or analyze flow
\* that is suspended on a call has a non-empty topic or a source image.
C9_BlankTopicIsRejected ==
    /\ [][ (~isLoading /\ Blank(topic) /\ selectedImage = NULL /\ handleGenerate)
              => /\ error' = ValidationMsg
                 /\ UNCHANGED <<isLoading, loadingStep, imageHistory, loadingFacts,
                                currentSearchResults, analysisResult, inflight>> ]_vars
    /\ [](\A i \in 1..Len(inflight) :
              inflight[i].kind \in {"generate", "analyze"}
                  => (~Blank(inflight[i].topic) \/ inflight[i].selectedImage # NULL))

C9_Witness ==
    /\ last = "handleGenerate:invalid"
    /\ topic = <<" ">>
    /\ error = ValidationMsg
    /\ ~isLoading

\* C10: a call of the generate, analyze or edit flow that fails with an access
\* signal sets the billing/key-required message and the has-valid-key flag to false;
\* the flag a failure has dropped, its message still in the error slot, becomes true
\* again only by a key selection.
C10_AccessFailureDropsKey ==
    [][ /\ \A i \in 1..Len(inflight) : \A err \in BackendErrors :
              AccessSignal(err) =>
                  /\ (researchRejected(i, err) \/ synthesisRejected(i, err)
                        \/ analyzeRejected(i, err))
                       => (error' = GenerateAccessMsg /\ ~hasApiKey')
                  /\ editRejected(i, err) => (error' = EditAccessMsg /\ ~hasApiKey')
        /\ (error \in {GenerateAccessMsg, EditAccessMsg} /\ ~hasApiKey /\ hasApiKey')
              => handleSelectKey ]_vars

\* C11: a call of the generate, analyze or edit flow that fails without an access
\* signal, the "no image produced" failure included, sets the same generic
\* "temporarily unavailable, try again" message in every flow and leaves the
\* has-valid-key flag unchanged.
C11_GenericFailureMessage ==
    [][ \A i \in 1..Len(inflight) : \A err \in BackendErrors :
            (/\ ~AccessSignal(err)
             /\ \/ researchRejected(i, err)
                \/ synthesisRejected(i, err)
                \/ analyzeRejected(i, err)
                \/ editRejected(i, err))
            => (error' = GenerateGenericMsg /\ UNCHANGED hasApiKey) ]_vars

\* C12: the latest image and the analysis are never displayed together; a successful
\* analyze displays the analysis and not the image; starting a generate or analyze
\* flow, and restoring a record, clear the analysis, and after a restore the image is
\* what is displayed once nothing is loading.
C12_DisplayExclusive ==
    /\ [](~(ImageShown /\ AnalysisShown))
    /\ [][ \A i \in 1..Len(inflight) :
              analyzeResolved(i) => (AnalysisShown' /\ ~ImageShown') ]_vars
    /\ [][ (handleGenerate /\ Len(inflight') > Len(inflight))
              => (analysisResult' = NoAnalysis /\ ~AnalysisShown') ]_vars
    /\ [][ \A k \in 1..Len(imageHistory) :
              restoreImage(k) => /\ analysisResult' = NoAnalysis
                                 /\ ~AnalysisShown'
                                 /\ ~isLoading' => ImageShown' ]_vars

\* the analysis is displayed while History holds an image
C12_Witness ==
    /\ AnalysisShown
    /\ imageHistory # <<>>
    /\ inflight = <<>>

\* The step in which the research call of flow i resolves, with the reply the flow
\* then holds.
ResearchReturns(i) ==
    /\ i <= Len(inflight')
    /\ inflight[i].pc = "research"
    /\ inflight'[i].pc = "synthesis"
    /\ researchResolved(i, inflight'[i].response)

\* The citations without the later ones of a url that occurred before
RECURSIVE FirstSeen(_)
FirstSeen(items) ==
    IF items = <<>> THEN <<>>
    ELSE LET before == FirstSeen(SubSeq(items, 1, Len(items) - 1))
             item == items[Len(items)]
         IN  IF \E j \in 1..Len(before) : before[j].url = item.url
             THEN before
             ELSE Append(before, item)

\* C13: the citation list a research call yields holds each url once, in the order
\* of the first occurrence of each url, with the title of the first chunk of that url.
C13_CitationsKeepFirstSeen ==
    [][ \A i \in 1..Len(inflight) :
            ResearchReturns(i) =>
                currentSearchResults' =
                    FirstSeen(ExtractGrounding(inflight'[i].response.chunks)) ]_vars

\* The prompt of the synthesis call flow i issues in this step
IssuedPrompt(i) == inflight'[i].calls[Len(inflight'[i].calls)].prompt

\* A text without leading or trailing whitespace
Trimmed(t) == t = <<>> \/ (Head(t) \notin {" ", "\n"} /\ t[Len(t)] \notin {" ", "\n"})

\* A text without a line break and without an IMAGE_PROMPT: marker in any letter case
OneLineNoMarker(t) ==
    \A j \in 1..Len(t) : t[j] \notin {"\n", "IMAGE_PROMPT:", "image_prompt:"}

\* C14 as stated: a reply of the exact form written from facts f1..fn (n <= 5, each
\* non-empty) and prompt P is parsed into exactly those facts, in order, and P.
C14_RoundTrip ==
    [][ \A i \in 1..Len(inflight) :
            (/\ ResearchReturns(i)
             /\ inflight'[i].response.form # NoForm
             /\ Len(inflight'[i].response.form.facts) <= 5
             /\ \A j \in 1..Len(inflight'[i].response.form.facts) :
                    inflight'[i].response.form.facts[j] # <<>>)
            => /\ loadingFacts' = inflight'[i].response.form.facts
               /\ IssuedPrompt(i) = inflight'[i].response.form.prompt ]_vars

\* C14, amended: the round trip holds for facts and a prompt that have no leading or
\* trailing whitespace, where no fact holds a line break or an IMAGE_PROMPT: marker.
C14_RoundTripOfTrimmedTexts ==
    [][ \A i \in 1..Len(inflight) :
            (/\ ResearchReturns(i)
             /\ inflight'[i].response.form # NoForm
             /\ Len(inflight'[i].response.form.facts) <= 5
             /\ \A j \in 1..Len(inflight'[i].response.form.facts) :
                    /\ inflight'[i].response.form.facts[j] # <<>>
                    /\ Trimmed(inflight'[i].response.form.facts[j])
                    /\ OneLineNoMarker(inflight'[i].response.form.facts[j])
             /\ Trimmed(inflight'[i].response.form.prompt))
            => /\ loadingFacts' = inflight'[i].response.form.facts
               /\ IssuedPrompt(i) = inflight'[i].response.form.prompt ]_vars

\* a reply of the exact form with five facts has been parsed into them
C14_Witness ==
    \E i \in 1..Len(inflight) :
        /\ inflight[i].pc = "synthesis"
        /\ inflight[i].response.form # NoForm
        /\ inflight[i].response.form.facts = << <<"A">>, <<"B">>, <<"B">>, <<"A">>, <<"A">> >>
        /\ loadingFacts = inflight[i].response.form.facts
        /\ inflight[i].calls[2].prompt = <<"P">>

\* C15: the fact list never holds more than 5 items, and a reply whose FACTS section
\* has more than 5 fact lines yields exactly the first 5 of them, in their order.
C15_AtMostFiveFacts ==
    /\ [](Len(loadingFacts) <= 5)
    /\ [][ \A i \in 1..Len(inflight) :
              (/\ ResearchReturns(i)
               /\ inflight'[i].response.form # NoForm
               /\ Len(inflight'[i].response.form.facts) > 5
               /\ \A j \in 1..Len(inflight'[i].response.form.facts) :
                      /\ inflight'[i].response.form.facts[j] # <<>>
                      /\ Trimmed(inflight'[i].response.form.facts[j])
                      /\ OneLineNoMarker(inflight'[i].response.form.facts[j]))
              => loadingFacts' = SubSeq(inflight'[i].response.form.facts, 1, 5) ]_vars

\* a reply with 8 bullet facts has been parsed into its first 5
C15_Witness ==
    \E i \in 1..Len(inflight) :
        /\ inflight[i].pc = "synthesis"
        /\ inflight[i].response.form # NoForm
        /\ Len(inflight[i].response.form.facts) = 8
        /\ inflight[i].response.form.facts[5] # inflight[i].response.form.facts[6]
        /\ loadingFacts = SubSeq(inflight[i].response.form.facts, 1, 5)

\* The text sub occurs in the text t
Contains(t, sub) ==
    \E k \in 0..(Len(t) - Len(sub)) : SubSeq(t, k + 1, k + Len(sub)) = sub

\* The replies C16 names: empty, without FACTS:, without IMAGE_PROMPT:, without both
EdgeReplies ==
    { [text |-> t, chunks |-> <<>>, form |-> NoForm] :
        t \in { <<>>,
                <<"IMAGE_PROMPT:", "A">>,
                <<"FACTS:", "\n", "-", "A">>,
                <<"A", "\n", "A">> } }

\* C16: whatever the reply text (empty, without FACTS:, without IMAGE_PROMPT:), the
\* research returns a result and the flow goes on to synthesis with no error set;
\* without an IMAGE_PROMPT: marker the prompt is a non-empty fallback that holds the
\* topic and the level and style instructions.
C16_ParsingNeverFails ==
    /\ [](\A i \in 1..Len(inflight) :
              inflight[i].pc = "research"
                  => \A response \in EdgeReplies : ENABLED researchResolved(i, response))
    /\ [][ \A i \in 1..Len(inflight) :
              ResearchReturns(i) =>
                  /\ UNCHANGED error
                  /\ loadingStep' = 2
                  /\ (\A j \in 1..Len(inflight'[i].response.text) :
                          inflight'[i].response.text[j] \notin {"IMAGE_PROMPT:", "image_prompt:"})
                       => /\ IssuedPrompt(i) # <<>>
                          /\ Contains(IssuedPrompt(i), inflight[i].topic)
                          /\ Contains(IssuedPrompt(i),
                                      <<getLevelInstruction(inflight[i].complexityLevel)>>)
                          /\ Contains(IssuedPrompt(i),
                                      <<getStyleInstruction(inflight[i].visualStyle)>>) ]_vars

\* an empty reply has been parsed and the synthesis call carries the fallback prompt
C16_Witness ==
    \E i \in 1..Len(inflight) :
        /\ inflight[i].pc = "synthesis"
        /\ inflight[i].response.text = <<>>
        /\ Head(inflight[i].calls[2].prompt) = "Create a detailed infographic about "
        /\ loadingFacts = <<>>
        /\ error = NULL

\* C17: an edit with the model imagen-4.0-generate-001 issues exactly one call, the
\* generateImages call of the synthesis, with the prompt "Modified version of previous
\* scene: " followed by the edit instruction, and no inline-image call; an edit with
\* either other model issues exactly one call, the inline-image edit call.
C17_EditRouting ==
    \A i \in 1..Len(inflight) :
        inflight[i].kind = "edit" =>
            LET f == inflight[i]
            IN  /\ Len(f.calls) = 1
                /\ f.calls[1].model = f.selectedModel
                /\ IF f.selectedModel = "imagen-4.0-generate-001"
                   THEN /\ f.calls[1].api = "generateImages"
                        /\ f.calls[1].prompt =
                               <<"Modified version of previous scene: ", f.editPrompt>>
                        /\ ~f.calls[1].inline
                   ELSE /\ f.calls[1].api = "generateContent"
                        /\ f.calls[1].prompt = <<f.editPrompt>>
                        /\ f.calls[1].inline

\* an edit with the dedicated image model is in flight, on its generateImages call
C17_Witness ==
    \E i \in 1..Len(inflight) :
        /\ inflight[i].kind = "edit"
        /\ inflight[i].selectedModel = "imagen-4.0-generate-001"
        /\ inflight[i].calls[1].api = "generateImages"
        /\ imageHistory # <<>>

\* C18: a successful edit prepends exactly one new record to History; its level,
\* style, language and aspectRatio are those of the record that was at index 0 when
\* the edit started, its model is the currently selected model, and the edited-from
\* record stays in History, unchanged, right after the new one.
C18_EditCarriesForward ==
    [][ \A i \in 1..Len(inflight) :
          editResolved(i) =>
              LET from == inflight[i].imageHistory[1]
                  new  == imageHistory'[1]
              IN  /\ imageHistory' = <<new>> \o imageHistory
                  /\ new.level = from.level
                  /\ new.style = from.style
                  /\ new.language = from.language
                  /\ new.aspectRatio = from.aspectRatio
                  /\ new.model = selectedModel
                  /\ imageHistory'[2] = from ]_vars

\* The step starts a flow of one of the kinds
Enters(kinds) ==
    /\ Len(inflight') = Len(inflight) + 1
    /\ inflight'[Len(inflight')].kind \in kinds

\* The messages the failure of a flow writes to the error slot
FlowFailureMsgs == { GenerateAccessMsg, GenerateGenericMsg, EditAccessMsg, EditGenericMsg }

\* C19: entering a generate, analyze or edit flow sets error to null; entering a
\* generate flow also empties the fact list and the citation list and clears the
\* analysis; so while the new flow is running (for the facts and citations: until
\* its own research has returned) none of them holds a value of another flow.
C19_EntryClears ==
    /\ [][ /\ Enters({"generate", "analyze", "edit"}) => error' = NULL
           /\ Enters({"generate"}) => /\ loadingFacts' = <<>>
                                      /\ currentSearchResults' = <<>>
                                      /\ analysisResult' = NoAnalysis ]_vars
    /\ [](\A i \in ActiveFlows :
              /\ error \notin FlowFailureMsgs
              /\ inflight[i].kind = "generate" => analysisResult = NoAnalysis
              /\ (inflight[i].kind = "generate" /\ inflight[i].pc \in {"geolocation", "research"})
                     => loadingFacts = <<>> /\ currentSearchResults = <<>>)

\* The number of calls to one of the apis among the calls a flow has issued
CallsTo(f, apis) == Cardinality({ k \in 1..Len(f.calls) : f.calls[k].api \in apis })

ImageApis == { "generateImages", "generateContent" }

\* The step is the failure of a call of flow i
Fails(i) ==
    \E err \in BackendErrors :
        \/ researchRejected(i, err)
        \/ synthesisRejected(i, err)
        \/ analyzeRejected(i, err)
        \/ editRejected(i, err)

\* C20: nothing is retried. A generate flow issues at most one research call and at
\* most one synthesis call, an edit flow at most one image call, an analyze flow
\* exactly one analysis call; the failure of a call ends its flow, which writes one
\* message to the error slot and leaves isLoading false and loadingStep 0.
C20_NoRetry ==
    /\ [](\A i \in 1..Len(inflight) :
              LET f == inflight[i]
              IN  /\ f.kind = "generate" =>
                        /\ CallsTo(f, {"research"}) <= 1
                        /\ CallsTo(f, ImageApis) <= 1
                        /\ Len(f.calls) <= 2
                  /\ f.kind = "edit" =>
                        CallsTo(f, ImageApis) = 1 /\ Len(f.calls) = 1
                  /\ f.kind = "analyze" =>
                        CallsTo(f, {"analyze"}) = 1 /\ Len(f.calls) = 1)
    /\ [][ \A i \in 1..Len(inflight) :
              Fails(i) =>
                  /\ error' \in FlowFailureMsgs
                  /\ inflight' = RemoveAt(inflight, i)
                  /\ Idle' ]_vars

\* a generate flow has issued its research call and its synthesis call, the synthesis
\* call failed, and the system is idle with the message of that one failure
C20_Witness ==
    /\ inflight = <<>>
    /\ error = GenerateGenericMsg
    /\ loadingFacts # <<>>
    /\ imageHistory = <<>>
    /\ Idle

\* C21: History and the analysis slot change only in the step that completes a flow:
\* while a generate, analyze or edit flow is in flight no other step (restore, header
\* reset, image upload) changes either of them.
C21_ChangedOnlyAtCompletion ==
    [][ (ActiveFlows # {} /\ Len(inflight') >= Len(inflight))
            => UNCHANGED <<imageHistory, analysisResult>> ]_vars

RECURSIVE Unbulleted(_)
Unbulleted(lines) ==
    IF lines = <<>> THEN <<>>
    ELSE LET f == Trim(StripBullet_Indented(Head(lines)))
         IN  (IF f # <<>> THEN <<f>> ELSE <<>>) \o Unbulleted(Tail(lines))

\* C23: the facts returned are the lines of the FACTS section, each with its leading
\* bullet marker removed and trimmed, without the lines that are then empty (the first
\* 5 of them); no returned fact begins with the bullet marker; so also when a bullet
\* line is indented.
C23_BulletsStripped ==
    [][ \A i \in 1..Len(inflight) :
            ResearchReturns(i) =>
                LET lines == SplitLines(FactsSection(inflight'[i].response.text))
                    facts == Unbulleted(lines)
                IN  /\ loadingFacts' = SubSeq(facts, 1, IF Len(facts) < 5 THEN Len(facts) ELSE 5)
                    /\ \A j \in 1..Len(loadingFacts') : Head(loadingFacts'[j]) # "-" ]_vars

\* C24: restoreImage resets the selection that is being analyzed: after it the
\* analysis and the selected image are both null and the restored record is at the
\* head of History, so it is what is displayed (once nothing is loading); it issues no
\* backend call and leaves isLoading, error, the facts and the citations unchanged.
C24_RestoreResetsSelection ==
    [][ \A k \in 1..Len(imageHistory) :
            restoreImage(k) =>
                /\ analysisResult' = NoAnalysis
                /\ selectedImage' = NULL
                /\ imageHistory'[1] = imageHistory[k]
                /\ ~isLoading' => (ImageShown' /\ ~AnalysisShown')
                /\ UNCHANGED <<inflight, isLoading, error, loadingFacts,
                               currentSearchResults>> ]_vars

\* a record has been restored after a flow failed: the record is displayed, no image
\* is selected, and the error and the facts are still there
C24_Witness ==
    /\ last = "restoreImage"
    /\ ImageShown
    /\ selectedImage = NULL
    /\ error = GenerateGenericMsg
    /\ loadingFacts # <<>>

\* The step completes flow i with a new record
Succeeds(i) == synthesisResolved(i) \/ editResolved(i)

\* C25: when a generate or edit flow completes successfully, History becomes the new
\* record prepended to History as it is at that moment; what restoreImage or the
\* header reset did while the flow was in flight is kept.
C25_PrependsToCurrentHistory ==
    [][ \A i \in 1..Len(inflight) :
            Succeeds(i) => imageHistory' = <<imageHistory'[1]>> \o imageHistory ]_vars

\* C26: in every reachable state in which a generate, analyze or edit call is
\* outstanding isLoading is true; a transcription that completes during such a flow
\* does not clear it.
C26_LoadingWhileCallOutstanding == ActiveFlows # {} => isLoading

\* C27: for every record of History, the aspectRatio and the model stored in the
\* record are those that were passed to the backend call that produced its image
\* data, for the records of an edit as for those of a generate.
C27_RecordMatchesCall ==
    \A k \in 1..Len(imageHistory) :
        /\ imageHistory[k].aspectRatio = imageHistory[k].data.aspectRatio
        /\ imageHistory[k].model = imageHistory[k].data.model

\* The step is the reply or the failure of chat call j
ChatReturns(j) == chatRejected(j) \/ \E response \in ChatReplies : chatResolved(j, response)

\* C28: the message list of the ChatBot only grows at its end, and is the greeting
\* followed by user and model entries in strict alternation; a send with a blank input
\* or while a reply is pending changes nothing and issues no call, so at most one chat
\* call is outstanding; each accepted user message is followed by exactly one model
\* entry (the reply, the text for an empty reply, or the error text), after which
\* isTyping is false.
C28_ChatAlternates ==
    /\ [](/\ messages[1] = Greeting
          /\ \A k \in 2..Len(messages) :
                messages[k].role = IF k % 2 = 0 THEN "user" ELSE "model")
    /\ [](Len(chatCalls) <= 1)
    /\ [](isTyping <=> chatCalls # <<>>)
    /\ [](isTyping <=> messages[Len(messages)].role = "user")
    /\ [][ /\ Len(messages') >= Len(messages)
           /\ SubSeq(messages', 1, Len(messages)) = messages ]_vars
    /\ [][ ((Blank(input) \/ isTyping) /\ handleSend)
              => UNCHANGED <<chatState, chatCalls>> ]_vars
    /\ [][ \A j \in 1..Len(chatCalls) :
              ChatReturns(j) =>
                  /\ Len(messages') = Len(messages) + 1
                  /\ messages'[Len(messages')].role = "model"
                  /\ messages'[Len(messages')].text
                        \in {<<"reply">>, EmptyReplyText, ChatErrorText}
                  /\ ~isTyping'
                  /\ chatCalls' = <<>> ]_vars

\* after one exchange a second message is waiting for its reply, and a send attempted
\* meanwhile with a typed input has been refused
C28_Witness ==
    /\ last = "handleSend:rejected"
    /\ isTyping
    /\ ~Blank(input)
    /\ Len(messages) = 4
    /\ Len(chatCalls) = 1

\* C29: handleEdit invoked while History is empty does nothing: it issues no backend
\* call and leaves isLoading, loadingStep, error and History (and every other state
\* variable of App) unchanged.
C29_EditOfEmptyHistoryIsNoOp ==
    [][ (imageHistory = <<>> /\ \E p \in EditPrompts : handleEdit(p))
            => UNCHANGED <<appState, inflight>> ]_vars

\* handleEdit has been invoked with an empty History while an error was displayed
C29_Witness ==
    /\ last = "handleEdit:empty"
    /\ imageHistory = <<>>
    /\ error # NULL
    /\ inflight = <<>>

\* C30: while Loading is mounted, smoothProgress never decreases and never exceeds 100
\* (2000 ticks of 0.05), whatever sequence of steps from 0, 1, 2 and however many
\* interval ticks occur, an arbitrarily long stay in step 2 included.
C30_ProgressBounded ==
    /\ [][smoothProgress' >= smoothProgress]_vars
    /\ [](smoothProgress <= 100 * 20)

\* the part of C30 that the interval callback does keep: no tick, and no change of
\* step, lowers smoothProgress
C30_ProgressMonotone ==
    [][smoothProgress' >= smoothProgress]_vars

\* the second half of C30 alone: the progress value stays within the track
C30_NeverAbove100 ==
    smoothProgress <= 100 * 20

====
